---- MODULE Spec2Model ----
(***************************************************************************)
(* Model of src/src/corridor_risk.hpp: RiskCoord, RiskState::from_raw and  *)
(* RiskState::next, with the caller that holds the current RiskState.      *)
(*                                                                         *)
(* A C++ double is modelled as a value of a small binary floating-point    *)
(* format that keeps what decides the behaviour of the code: a significand *)
(* of Precision bits with round-to-nearest, ties-to-even, a smallest       *)
(* quantum, NaN and the two infinities.  A finite value is counted in      *)
(* quanta; the literal 1e-9 is Eps quanta and the literal 1.0 is One       *)
(* quanta (the ratio of the two is scaled down).  The exponent is not      *)
(* bounded above: the finite sums of the model stay far from overflow, and *)
(* an infinity enters only as a component of an argument.                  *)
(***************************************************************************)
EXTENDS Integers, Sequences, FiniteSets, TLC

VARIABLES current, before, arg, op, outcome

vars == <<current, before, arg, op, outcome>>

\* what a chain of transitions started from and how long it is
VARIABLES initial, steps

chain == <<initial, steps>>

(* ------------------------------ bounds -------------------------------- *)

\* longest coordinate sequence a caller passes
MaxLen == 3

\* bits of significand of the modelled double
Precision == 2

\* longest chain of accepted transitions that is counted
MaxSteps == 3

(* --------------------------- double values ---------------------------- *)

\* the literal 1.0 of the range check, in quanta
One == 2

\* the literal 1e-9 of the tolerance, in quanta
Eps == 1

Fin(n) == [k |-> "fin", v |-> n]
NaN == [k |-> "nan", v |-> 0]
PInf == [k |-> "inf", v |-> 1]
NInf == [k |-> "inf", v |-> -1]

Zero == Fin(0)
FOne == Fin(One)
FEps == Fin(Eps)

IsNaN(a) == a.k = "nan"
IsFin(a) == a.k = "fin"

\* a < b on doubles: false as soon as one side is NaN
FLt(a, b) ==
    IF IsNaN(a) \/ IsNaN(b) THEN FALSE
    ELSE IF IsFin(a) /\ IsFin(b) THEN a.v < b.v
    ELSE IF IsFin(a) THEN b.v > 0
    ELSE IF IsFin(b) THEN a.v < 0
    ELSE a.v < b.v

\* a > b on doubles
FGt(a, b) == FLt(b, a)

RECURSIVE Pow2(_)
Pow2(n) == IF n = 0 THEN 1 ELSE 2 * Pow2(n - 1)

\* the spacing of the representable values around num/den >= 0
RECURSIVE Spacing(_, _, _)
Spacing(num, den, s) ==
    IF num < Pow2(Precision) * s * den THEN s ELSE Spacing(num, den, 2 * s)

\* num/den >= 0 rounded to the nearest representable value, ties to even
RoundPos(num, den) ==
    LET s == Spacing(num, den, 1)
        q == num \div (den * s)
        rem == num - q * den * s
    IN  IF 2 * rem < den * s THEN q * s
        ELSE IF 2 * rem > den * s THEN (q + 1) * s
        ELSE IF q % 2 = 0 THEN q * s ELSE (q + 1) * s

Round(num, den) == IF num < 0 THEN 0 - RoundPos(0 - num, den) ELSE RoundPos(num, den)

\* a + b on doubles
FAdd(a, b) ==
    IF IsNaN(a) \/ IsNaN(b) THEN NaN
    ELSE IF IsFin(a) /\ IsFin(b) THEN Fin(Round(a.v + b.v, 1))
    ELSE IF IsFin(a) THEN b
    ELSE IF IsFin(b) THEN a
    ELSE IF a.v = b.v THEN a ELSE NaN

Sign(n) == IF n < 0 THEN -1 ELSE IF n > 0 THEN 1 ELSE 0

\* a * b on doubles
FMul(a, b) ==
    IF IsNaN(a) \/ IsNaN(b) THEN NaN
    ELSE IF IsFin(a) /\ IsFin(b) THEN Fin(Round(a.v * b.v, One))
    ELSE IF Sign(a.v) * Sign(b.v) = 0 THEN NaN
    ELSE IF Sign(a.v) * Sign(b.v) > 0 THEN PInf ELSE NInf

(* ------------------------------ RiskState ----------------------------- *)

RiskCoord(r, w) == [r |-> r, w |-> w]

RiskState(coords, V) == [coords |-> coords, V |-> V]

\* `RiskState s;` before anything is assigned to it; also "no state yet"
NoState == RiskState(<<>>, Zero)

Return(s) == [err |-> "none", ret |-> s]
Throw(e) == [err |-> e, ret |-> NoState]

\* c.r < 0.0 || c.r > 1.0
RangeFails(c) == FLt(c.r, Zero) \/ FGt(c.r, FOne)

\* c.w < 0.0
WeightFails(c) == FLt(c.w, Zero)

\* as Accumulate, with `=` written for `+=`
Accumulate_Overwrite(V, c) == FMul(c.r, c.w)

\* s.V += c.r * c.w
Accumulate(V, c) == FAdd(V, FMul(c.r, c.w))

\* the for loop of from_raw, from coordinate i on, with s.V = V so far
RECURSIVE from_raw_loop(_, _, _)
from_raw_loop(rc, i, V) ==
    IF i > Len(rc) THEN Return(RiskState(rc, V))
    ELSE IF RangeFails(rc[i]) THEN Throw("RiskValueOutOfRange")
    ELSE IF WeightFails(rc[i]) THEN Throw("NegativeWeight")
    ELSE from_raw_loop(rc, i + 1, Accumulate(V, rc[i]))

\* as from_raw, with every r checked before any w
from_raw_TwoPass(rc) ==
    IF Len(rc) = 0 THEN Throw("EmptyCorridor")
    ELSE IF \E i \in 1..Len(rc) : RangeFails(rc[i]) THEN Throw("RiskValueOutOfRange")
    ELSE IF \E i \in 1..Len(rc) : WeightFails(rc[i]) THEN Throw("NegativeWeight")
    ELSE from_raw_loop(rc, 1, Zero)

\* as from_raw, with the loop starting at the second coordinate
from_raw_OffByOne(rc) ==
    IF Len(rc) = 0 THEN Throw("EmptyCorridor")
    ELSE from_raw_loop(rc, 2, Zero)

from_raw(rc) ==
    IF Len(rc) = 0 THEN Throw("EmptyCorridor")
    ELSE from_raw_loop(rc, 1, Zero)

\* as ResidualIncreased, without the tolerance: n.V > V
ResidualIncreased_NoTolerance(nV, V) == FGt(nV, V)

\* as ResidualIncreased, asking for a strict decrease: n.V >= V
ResidualIncreased_Strict(nV, V) == FGt(nV, V) \/ (nV = V /\ ~IsNaN(V))

\* as ResidualIncreased, with >= written for >: n.V >= V + 1e-9
ResidualIncreased_Ge(nV, V) ==
    FGt(nV, FAdd(V, FEps)) \/ (nV = FAdd(V, FEps) /\ ~IsNaN(nV))

\* n.V > V + 1e-9
ResidualIncreased(nV, V) == FGt(nV, FAdd(V, FEps))

\* as next, with the candidate assigned to the object before the comparison
next_AssignsFirst(s, rc) ==
    LET n == from_raw(rc)
    IN  IF n.err # "none" THEN [out |-> n, self |-> s]
        ELSE IF ResidualIncreased(n.ret.V, s.V)
             THEN [out |-> Throw("ResidualIncreased"), self |-> n.ret]
             ELSE [out |-> n, self |-> n.ret]

\* as next, refusing a sequence that is not as long as the current one
next_SameLength(s, rc) ==
    LET n == from_raw(rc)
    IN  IF n.err # "none" THEN [out |-> n, self |-> s]
        ELSE IF Len(rc) # Len(s.coords) \/ ResidualIncreased(n.ret.V, s.V)
             THEN [out |-> Throw("ResidualIncreased"), self |-> s]
             ELSE [out |-> n, self |-> s]

\* s.next(rc): what the call gives (out) and the object it was called on
\* after the call (self; next is const)
next(s, rc) ==
    LET n == from_raw(rc)
    IN  IF n.err # "none" THEN [out |-> n, self |-> s]
        ELSE IF ResidualIncreased(n.ret.V, s.V)
             THEN [out |-> Throw("ResidualIncreased"), self |-> s]
             ELSE [out |-> n, self |-> s]

(* ------------------------------- inputs ------------------------------- *)

\* coordinates whose sums are rounded, and two with the same product
RoundingCoords ==
    { RiskCoord(FOne, Fin(1)), RiskCoord(FOne, Fin(4)), RiskCoord(Fin(1), Fin(2)) }

\* coordinates that fail one check or both, and one that passes
InvalidCoords ==
    { RiskCoord(FOne, Fin(1)), RiskCoord(Fin(One + 1), Fin(1)),
      RiskCoord(FOne, Fin(-1)), RiskCoord(Fin(-1), Fin(-1)) }

\* coordinates with a NaN or an infinite component
SpecialCoords ==
    { RiskCoord(NaN, Fin(1)), RiskCoord(FOne, NaN), RiskCoord(Zero, PInf) }

\* coordinates whose product is zero
ZeroCoords == { RiskCoord(Zero, Fin(4)), RiskCoord(FOne, Zero) }

Alphabets == { RoundingCoords, InvalidCoords, SpecialCoords, ZeroCoords }

SeqsOver(A) == UNION { [1..n -> A] : n \in 0..MaxLen }

Inputs == UNION { SeqsOver(A) : A \in Alphabets }

(* ------------------------------ the caller ---------------------------- *)

NoOutcome == Throw("no call")

\* nothing constructed yet, the control loop idle
Init ==
    /\ current = NoState
    /\ before = NoState
    /\ arg = <<>>
    /\ op = "idle"
    /\ outcome = NoOutcome
    /\ initial = Zero
    /\ steps = 0

\* the first state: RiskState::from_raw(rc), kept when it returns
Construct(rc) ==
    /\ op = "idle"
    /\ current = NoState
    /\ LET r == from_raw(rc)
       IN  /\ outcome' = r
           /\ current' = IF r.err = "none" THEN r.ret ELSE current
    /\ before' = current
    /\ arg' = rc
    /\ op' = "from_raw"

\* one step of the control loop: current.next(rc), adopted when it returns
Transition(rc) ==
    /\ op = "idle"
    /\ current # NoState
    /\ LET r == next(current, rc)
       IN  /\ outcome' = r.out
           /\ current' = IF r.out.err = "none" THEN r.out.ret ELSE r.self
    /\ before' = current
    /\ arg' = rc
    /\ op' = "next"

\* the loop goes on to its next iteration: the argument and the result of
\* the last call go out of scope, the current state stays
NextIteration ==
    /\ op # "idle"
    /\ op' = "idle"
    /\ before' = NoState
    /\ arg' = <<>>
    /\ outcome' = NoOutcome
    /\ UNCHANGED current

Next ==
    \/ \E rc \in Inputs : Construct(rc) /\ UNCHANGED chain
    \/ \E rc \in Inputs : Transition(rc) /\ UNCHANGED chain
    \/ NextIteration /\ UNCHANGED chain

Spec == Init /\ [][Next]_<<vars, chain>>

(* ------------------------- chains of transitions ---------------------- *)

\* coordinates for chains: two weights whose sums are rounded, and a NaN
ChainCoords ==
    { RiskCoord(FOne, Fin(1)), RiskCoord(FOne, Fin(4)), RiskCoord(NaN, Fin(1)) }

ChainInputs == SeqsOver(ChainCoords)

\* the first state of a chain, with its residual remembered as V0
ChainConstruct(rc) ==
    /\ Construct(rc)
    /\ initial' = current'.V
    /\ steps' = 0

\* a step of a chain, counted when it is accepted
ChainTransition(rc) ==
    /\ steps < MaxSteps
    /\ Transition(rc)
    /\ steps' = IF outcome'.err = "none" THEN steps + 1 ELSE steps
    /\ UNCHANGED initial

ChainNext ==
    \/ \E rc \in ChainInputs : ChainConstruct(rc)
    \/ \E rc \in ChainInputs : ChainTransition(rc)
    \/ NextIteration /\ UNCHANGED chain

SpecChain == Init /\ [][ChainNext]_<<vars, chain>>

(* ------------------- what the claims are stated with ------------------ *)

\* a <= b on doubles
FLe(a, b) == ~IsNaN(a) /\ ~IsNaN(b) /\ ~FLt(b, a)

\* r lies in [0,1]
InUnitRange(r) == FLe(Zero, r) /\ FLe(r, FOne)

\* a sequence the data model allows: non-empty, every r in [0,1], every w >= 0
Valid(rc) ==
    /\ Len(rc) > 0
    /\ \A i \in 1..Len(rc) : InUnitRange(rc[i].r) /\ FLe(Zero, rc[i].w)

\* the sum of r*w over rc, in double arithmetic, in the order of rc
RECURSIVE FSum(_)
FSum(rc) ==
    IF Len(rc) = 0 THEN Zero
    ELSE LET n == Len(rc)
         IN  FAdd(FSum(SubSeq(rc, 1, n - 1)), FMul(rc[n].r, rc[n].w))

\* the permutations of rc
Perms(rc) == { [i \in 1..Len(rc) |-> rc[p[i]]] : p \in Permutations(1..Len(rc)) }

\* the sum of r*w over rc in exact arithmetic, in One-ths of a quantum
RECURSIVE ExactNum(_)
ExactNum(rc) ==
    IF Len(rc) = 0 THEN 0
    ELSE LET n == Len(rc)
         IN  ExactNum(SubSeq(rc, 1, n - 1)) + rc[n].r.v * rc[n].w.v

\* no product and no partial sum over rc is rounded, in whatever order
SumsExactly(rc) ==
    /\ \A i \in 1..Len(rc) :
          /\ IsFin(rc[i].r) /\ IsFin(rc[i].w)
          /\ (rc[i].r.v * rc[i].w.v) % One = 0
    /\ ExactNum(rc) <= Pow2(Precision) * One

Accepted == outcome.err = "none"
Candidate == RiskState(arg, FSum(arg))

(* -------------------------------- C1 ---------------------------------- *)

\* C1: a transition whose nextCoordinates construct fails with
\* ResidualIncreased exactly when candidate.residual > current.residual + eps;
\* otherwise it returns the candidate, whose coordinates are nextCoordinates
\* and whose residual is the sum of r*w over them.
C1_TransitionOutcome ==
    (op = "next" /\ from_raw(arg).err = "none") =>
        /\ (outcome.err = "ResidualIncreased")
              <=> FGt(FSum(arg), FAdd(before.V, FEps))
        /\ (outcome.err # "ResidualIncreased")
              => (outcome = Return(Candidate) /\ current = Candidate)

C1_Witness ==
    /\ op = "next"
    /\ from_raw(arg).err = "none"
    /\ outcome.err = "ResidualIncreased"
    /\ IsFin(before.V)
    /\ FGt(FSum(arg), FAdd(before.V, FEps))

(* -------------------------------- C2 ---------------------------------- *)

\* C2: on a non-empty sequence with every r in [0,1] and every w >= 0,
\* construct succeeds and returns the input sequence in the given order with
\* the sum of r*w as residual.
C2_ConstructValid ==
    (op = "from_raw" /\ Valid(arg)) =>
        (outcome = Return(Candidate) /\ current = Candidate)

C2_Witness ==
    /\ op = "from_raw"
    /\ Valid(arg)
    /\ Len(arg) >= 2
    /\ arg[1] # arg[2]
    /\ outcome = Return(Candidate)

(* -------------------------------- C3 ---------------------------------- *)

\* C3: every state reached by construct or by accepted transitions has a
\* non-empty coordinate sequence, every r in [0,1] and every w >= 0, and a
\* residual equal to the sum of r*w over its coordinates.
C3_StateInvariants ==
    (current # NoState) =>
        /\ Valid(current.coords)
        /\ current.V = FSum(current.coords)

(* -------------------------------- C4 ---------------------------------- *)

\* C4: a rejected transition leaves the current state as it was, and once
\* the caller goes on, the system is back in the very state the rejected
\* call was made from.
C4_RejectedLeavesCurrent ==
    [][ /\ (op' = "next" /\ outcome'.err # "none") => current' = current
        /\ (op = "next" /\ outcome.err # "none" /\ op' = "idle")
              => vars' = <<before, NoState, <<>>, "idle", NoOutcome>> ]_vars

C4_Witness ==
    /\ op = "next"
    /\ outcome.err = "ResidualIncreased"
    /\ current = before
    /\ current # Candidate

(* -------------------------------- C5 ---------------------------------- *)

\* C5: a transition to a valid coordinate set whose residual is no greater
\* than the current one is accepted and returns its candidate, at every
\* step of every chain.
C5_NonIncreasingAccepted ==
    (op = "next" /\ Valid(arg) /\ FLe(FSum(arg), before.V)) =>
        (outcome = Return(Candidate) /\ current = Candidate)

\* an equal residual, where current.residual + eps rounds back to it
C5_Witness ==
    /\ op = "next"
    /\ Valid(arg)
    /\ FSum(arg) = before.V
    /\ IsFin(before.V)
    /\ FAdd(before.V, FEps) = before.V
    /\ arg # before.coords
    /\ current = Candidate

(* -------------------------------- C6 ---------------------------------- *)

\* 1e-8 in units of 1e-9
TenEps == 10 * Eps

\* C6: a candidate residual of exactly current.residual + 1e-9 is accepted,
\* one of exactly current.residual + 1e-8 is rejected with ResidualIncreased.
C6_ToleranceInclusive ==
    (op = "next" /\ Valid(arg) /\ IsFin(FSum(arg)) /\ IsFin(before.V)) =>
        /\ (FSum(arg).v = before.V.v + Eps)
              => (Accepted /\ current = Candidate)
        /\ (FSum(arg).v = before.V.v + TenEps)
              => (outcome.err = "ResidualIncreased" /\ current = before)

C6_Witness ==
    /\ op = "next"
    /\ Valid(arg)
    /\ IsFin(FSum(arg)) /\ IsFin(before.V)
    /\ FSum(arg).v = before.V.v + Eps
    /\ current = Candidate

C6_WitnessRejected ==
    /\ op = "next"
    /\ Valid(arg)
    /\ IsFin(FSum(arg)) /\ IsFin(before.V)
    /\ FSum(arg).v = before.V.v + TenEps
    /\ outcome.err = "ResidualIncreased"

(* -------------------------------- C7 ---------------------------------- *)

\* nextCoordinates that validation is to refuse: empty, an r outside [0,1]
\* or a negative w
Invalid(rc) ==
    \/ Len(rc) = 0
    \/ \E i \in 1..Len(rc) : ~InUnitRange(rc[i].r)
    \/ \E i \in 1..Len(rc) : FLt(rc[i].w, Zero)

\* C7: a transition to an empty sequence, to one with an r outside [0,1] or
\* to one with a negative w fails with the error construct gives on that
\* sequence, and never with ResidualIncreased.
C7_ValidationFirst ==
    (op = "next" /\ Invalid(arg)) =>
        /\ outcome.err \in {"EmptyCorridor", "RiskValueOutOfRange", "NegativeWeight"}
        /\ outcome = from_raw(arg)
        /\ current = before

(* -------------------------------- C8 ---------------------------------- *)

\* r < 0 or r > 1
OutOfRange(c) == FLt(c.r, Zero) \/ FGt(c.r, FOne)

\* w < 0
Negative(c) == FLt(c.w, Zero)

\* the first coordinate of rc that is out of range or negative
FirstOffender(rc) ==
    CHOOSE i \in 1..Len(rc) :
        /\ OutOfRange(rc[i]) \/ Negative(rc[i])
        /\ \A j \in 1..(i - 1) : ~OutOfRange(rc[j]) /\ ~Negative(rc[j])

\* C8 as stated: on a non-empty sequence with some r outside [0,1] and some
\* w < 0, in any positions, construct fails with RiskValueOutOfRange.
C8_RangeBeforeWeight ==
    ( /\ op = "from_raw"
      /\ \E i \in 1..Len(arg) : OutOfRange(arg[i])
      /\ \E i \in 1..Len(arg) : Negative(arg[i]) )
    => outcome.err = "RiskValueOutOfRange"

\* C8 as amended: on a non-empty sequence with some coordinate that has
\* r < 0, r > 1 or w < 0, construct fails with the error of the first such
\* coordinate: RiskValueOutOfRange when its r is out of range,
\* NegativeWeight otherwise.
C8_FirstOffenderDecides ==
    ( /\ op = "from_raw"
      /\ \E i \in 1..Len(arg) : OutOfRange(arg[i]) \/ Negative(arg[i]) )
    => /\ outcome.err = IF OutOfRange(arg[FirstOffender(arg)])
                        THEN "RiskValueOutOfRange" ELSE "NegativeWeight"
       /\ current = NoState

C8_Witness ==
    /\ op = "from_raw"
    /\ \E i \in 1..Len(arg) : OutOfRange(arg[i])
    /\ \E i \in 1..Len(arg) : Negative(arg[i])
    /\ ~OutOfRange(arg[FirstOffender(arg)])
    /\ outcome.err = "NegativeWeight"

(* -------------------------------- C9 ---------------------------------- *)

\* C9: construct fails with EmptyCorridor on the empty sequence, with
\* RiskValueOutOfRange when some r is outside [0,1] and every w >= 0, with
\* NegativeWeight when every r is in [0,1] and some w < 0, and returns no
\* state in any of the three.
C9_ErrorPerKind ==
    (op = "from_raw") =>
        /\ (Len(arg) = 0) => (outcome = Throw("EmptyCorridor") /\ current = NoState)
        /\ ( /\ Len(arg) > 0
             /\ \E i \in 1..Len(arg) : ~InUnitRange(arg[i].r)
             /\ \A i \in 1..Len(arg) : FLe(Zero, arg[i].w) )
           => (outcome = Throw("RiskValueOutOfRange") /\ current = NoState)
        /\ ( /\ Len(arg) > 0
             /\ \A i \in 1..Len(arg) : InUnitRange(arg[i].r)
             /\ \E i \in 1..Len(arg) : FLt(arg[i].w, Zero) )
           => (outcome = Throw("NegativeWeight") /\ current = NoState)

(* -------------------------------- C10 --------------------------------- *)

\* C10 as stated: construct succeeds on every permutation of a valid
\* sequence and returns the same residual on each.
C10_OrderIndependent ==
    (op = "from_raw" /\ Valid(arg)) =>
        \A p \in Perms(arg) :
            from_raw(p).err = "none" /\ from_raw(p).ret.V = outcome.ret.V

\* C10 as amended: construct succeeds on every permutation of a valid
\* sequence; the residuals are the same when the sequence has at most two
\* coordinates or when no product and no partial sum is rounded.
C10_OrderIndependentWhenExact ==
    (op = "from_raw" /\ Valid(arg)) =>
        \A p \in Perms(arg) :
            /\ from_raw(p).err = "none"
            /\ (Len(arg) <= 2 \/ SumsExactly(arg))
                  => from_raw(p).ret.V = outcome.ret.V

C10_Witness ==
    /\ op = "from_raw"
    /\ Valid(arg)
    /\ Len(arg) = 3
    /\ SumsExactly(arg)
    /\ arg[1] # arg[3]
    /\ Accepted
    /\ \A p \in Perms(arg) : from_raw(p).ret.V = outcome.ret.V

(* -------------------------------- C11 --------------------------------- *)

\* x <= y + d, with d quanta added exactly; a NaN is at most itself only
LeBy(x, y, d) ==
    IF IsFin(x) /\ IsFin(y) THEN x.v <= y.v + d ELSE (x = y \/ FLe(x, y))

\* C11: every accepted transition leaves a residual that is at most the
\* residual of the state it was applied to plus eps.
C11_StepWithinTolerance ==
    (op = "next" /\ Accepted) => LeBy(current.V, before.V, Eps)

(* -------------------------------- C12 --------------------------------- *)

\* C12: after k accepted transitions from a state with residual V0 the
\* current residual is at most V0 + k*eps.
C12_CumulativeBound ==
    (current # NoState) => LeBy(current.V, initial, steps * Eps)

\* the bound is cumulative: two accepted steps of eps each, ending above
\* V0 + eps
C12_Drift ==
    /\ op = "next" /\ Accepted
    /\ steps = 2
    /\ IsFin(initial) /\ IsFin(before.V) /\ IsFin(current.V)
    /\ before.V.v = initial.v + Eps
    /\ current.V.v = before.V.v + Eps

(* -------------------------------- C13 --------------------------------- *)

\* every state construct returns on an input of one or two coordinates
ConstructedStates ==
    { from_raw(rc).ret :
        rc \in { x \in Inputs : Len(x) <= 2 /\ from_raw(x).err = "none" } }

\* the constructed states whose residual is V
Peers(V) == { s \in ConstructedStates : s.V = V }

\* C13: a transition gives the same result (the same error, or the same
\* returned state) from every state that has the residual of the current
\* one, whatever its coordinates and however many.
C13_OnlyResidualMatters ==
    (op = "next") =>
        \A s \in Peers(before.V) : next(s, arg).out = outcome

C13_Witness ==
    /\ op = "next"
    /\ Accepted
    /\ IsFin(before.V)
    /\ Len(arg) # Len(before.coords)
    /\ \E s \in Peers(before.V) :
          /\ Len(s.coords) # Len(before.coords)
          /\ Len(s.coords) # Len(arg)
          /\ next(s, arg).out = outcome

(* -------------------------------- C14 --------------------------------- *)

\* the sum of the weights of rc, in double arithmetic, in the order of rc
RECURSIVE FSumW(_)
FSumW(rc) ==
    IF Len(rc) = 0 THEN Zero
    ELSE LET n == Len(rc)
         IN  FAdd(FSumW(SubSeq(rc, 1, n - 1)), rc[n].w)

\* from residual 0, a valid candidate above eps is rejected
ZeroRejectsAboveEps ==
    (op = "next" /\ before.V = Zero /\ Valid(arg) /\ FGt(FSum(arg), FEps))
        => (outcome.err = "ResidualIncreased" /\ current = before)

\* C14: the residual of every state returned by construct or by an accepted
\* transition lies between 0 and the sum of its weights; so from residual 0
\* every valid candidate whose residual exceeds eps is rejected.
C14_ResidualBounds ==
    /\ (current # NoState) =>
          /\ FLe(Zero, current.V)
          /\ FLe(current.V, FSumW(current.coords))
    /\ ZeroRejectsAboveEps

====
